---------------------------- MODULE Spec2Model ----------------------------
(***************************************************************************)
(* The temporal detection filter of object_detection_video_stream.py:      *)
(* class Detector, its constructor and get_detections.                     *)
(*                                                                         *)
(* Units.  Time is counted in half seconds (0.5 s = 1, 1.0 s = 2), so      *)
(* that the clock values 0, 0.5, 1.5, 2.0 and 4.0 of the documented        *)
(* scenarios are the integers 0, 1, 3, 4 and 8.  Scores are counted in     *)
(* tenths (0.5 = 5, 0.9 = 9).  A bounding box is an opaque token.          *)
(***************************************************************************)
EXTENDS Integers, Sequences, FiniteSets

\* ------------------------------------------------------------------ bounds

\* The clock runs over 0..MaxTime (half seconds).
MaxTime == 8

\* ------------------------------------------------------- program constants

\* Detector._absent_time_th = 2 (seconds), in half seconds.
absent_time_th == 4

\* The initial value -1.0 (seconds) of time_detected, in half seconds.
NoTime == -2

\* ------------------------------------------------------------------ inputs

\* The label sets, score thresholds and time thresholds a Detector is built with.
LabelSets == {{"cat"}, {"cat", "dog"}}
ScoreThs == {5}
TimeThs == {-1, 0, 2, 4}

\* The raw detections a model output carries: a cat above the score
\* threshold, a cat whose score equals the threshold, and a dog, which one of
\* the label sets watches and the other does not.
Cat == [label |-> "cat", bbox |-> "b1", score |-> 9]
Dim == [label |-> "cat", bbox |-> "b2", score |-> 5]
Dog == [label |-> "dog", bbox |-> "b2", score |-> 9]

\* inference_result.results: the frames fed to get_detections.
Frames == { <<>>, <<Cat>>, <<Dim>>, <<Dog>>, <<Cat, Dog>>, <<Dim, Cat>> }

Times == 0..MaxTime

\* ------------------------------------------------------------------- state

VARIABLES
    labels,         \* self.labels
    score_th,       \* self.score_th
    time_th,        \* self.time_th
    time_detected,  \* self.time_detected
    detections,     \* self.detections
    curr_time,      \* time.time() as read by the latest call (0 before any call)
    ret,            \* the list the latest call returned
    calls,          \* 0 before the first call, 1 after
    \* What an observer of the calls records (no field of the program).
    expected,       \* the latest frame's candidate-present detections, as {label, bbox}
    td0,            \* self.time_detected when the latest call began
    dets0,          \* self.detections when the latest call began
    nonempty,       \* the latest frame carried some raw detection
    who,            \* the label the observer follows: cat, which every label set watches
    streakStart,    \* start of who's presence streak (gaps under the grace tolerated)
    lastSeen,       \* clock of the latest frame who was candidate-present in
    runStart,       \* first frame of the gapless run of frames who is present in
    reported,       \* some call of that run returned an entry for who
    lastPresentAt,  \* clock of the latest frame with a candidate-present detection
    lastPresentRet, \* what the call on that frame returned
    afterReset,     \* a verified detection was followed by an absence of the grace or more
    newStreakAt,    \* clock of the first candidate-present frame after that absence
    seen,           \* a candidate-present detection was processed since the cache was last emptied
    lastNonEmptyRet, \* the latest non-empty list returned since the last absence timeout
    onScript,       \* the calls made so far are the first calls of the documented scenario
    script,         \* how many of them
    \* Two Detector objects built from the same arguments.
    inst,           \* per object: self.time_detected, self.detections and its latest return
    alone           \* per object: the same, had its own calls been the only calls made

prog == <<labels, score_th, time_th, time_detected, detections, curr_time, ret, calls>>

obs == <<expected, td0, dets0, nonempty, who, streakStart, lastSeen, runStart, reported, lastPresentAt,
         lastPresentRet, afterReset, newStreakAt, seen, lastNonEmptyRet,
         onScript, script>>

\* The two Detector objects.
Instances == {1, 2}

\* lines 45-47: the fields __init__ gives an object, and nothing returned yet.
Fresh == [time_detected |-> NoTime, detections |-> <<>>, ret |-> <<>>]

\* ---------------------------------------------------------- get_detections

\* IsCandidate with an inclusive score threshold.
IsCandidateInclusive(result) ==
    result.label \in labels /\ result.score >= score_th

\* line 62: label in self.labels and score > self.score_th
IsCandidate(result) ==
    result.label \in labels /\ result.score > score_th

\* IsVerified without the test that the streak start is set.
IsVerifiedAnyStart(td, t) ==
    t - td > time_th

\* IsVerified taking a streak start of 0.0 for set.
IsVerifiedFromZero(td, t) ==
    td >= 0 /\ t - td > time_th

\* IsVerified with an inclusive time threshold.
IsVerifiedInclusive(td, t) ==
    td > 0 /\ t - td >= time_th

\* line 64: self.time_detected > 0.0 and curr_time - self.time_detected > self.time_th
IsVerified(td, t) ==
    td > 0 /\ t - td > time_th

\* line 66: {'label': label, 'bbox': bbox}
Entry(result) ==
    [label |-> result.label, bbox |-> result.bbox]

\* lines 54, 58-66: the loop's curr_detections
RECURSIVE ScanDetections(_, _, _)
ScanDetections(results, td, t) ==
    IF results = <<>> THEN <<>>
    ELSE LET result == Head(results)
             rest == ScanDetections(Tail(results), td, t)
         IN  IF IsCandidate(result) /\ IsVerified(td, t)
             THEN <<Entry(result)>> \o rest
             ELSE rest

\* lines 57, 62-63: the loop's is_something_detected
IsSomethingDetected(results) ==
    \E i \in 1..Len(results) : IsCandidate(results[i])

\* line 68: self.time_detected > 0.0 and not is_something_detected
IsAbsent(td, results) ==
    td > 0 /\ ~IsSomethingDetected(results)

\* InGrace measured against the sustain threshold.
InGraceSustain(td, t) ==
    t - td < time_th

\* InGrace with an inclusive absence threshold.
InGraceInclusive(td, t) ==
    t - td <= absent_time_th

\* line 69: curr_time - self.time_detected < Detector._absent_time_th
InGrace(td, t) ==
    t - td < absent_time_th

\* IsCleared without the test of the absence threshold.
IsClearedAtOnce(td, dets, results, t) ==
    IsAbsent(td, results) /\ Len(dets) > 0

\* lines 73-78: the saved detections are removed when there are some
IsCleared(td, dets, results, t) ==
    IsAbsent(td, results) /\ ~InGrace(td, t) /\ Len(dets) > 0

\* IsInitial without the test of is_something_detected.
IsInitialAlways(td, results) ==
    td < 0

\* line 84: is_something_detected and self.time_detected < 0.0
IsInitial(td, results) ==
    IsSomethingDetected(results) /\ td < 0

\* GetDetectionsResult without the refresh of the cache (lines 80-82).
GetDetectionsResultNoRefresh(td, dets, results, t) ==
    LET scanned == ScanDetections(results, td, t)
        curr_detections ==
            IF IsAbsent(td, results) /\ InGrace(td, t) THEN dets ELSE scanned
        cleared == IsCleared(td, dets, results, t)
        dets1 == IF cleared THEN <<>> ELSE dets
        td1 == IF cleared THEN NoTime ELSE td
        td2 == IF IsInitial(td1, results) THEN t ELSE td1
    IN  [time_detected |-> td2, detections |-> dets1, ret |-> curr_detections]

\* lines 54-89: one call, from the fields td, dets, the frame and the clock
\* to the fields after the call and the returned list.
GetDetectionsResult(td, dets, results, t) ==
    LET scanned == ScanDetections(results, td, t)
        curr_detections ==
            IF IsAbsent(td, results) /\ InGrace(td, t) THEN dets ELSE scanned
        cleared == IsCleared(td, dets, results, t)
        dets1 == IF cleared THEN <<>> ELSE dets
        td1 == IF cleared THEN NoTime ELSE td
        dets2 == IF Len(curr_detections) > 0 THEN curr_detections ELSE dets1
        td2 == IF IsInitial(td1, results) THEN t ELSE td1
    IN  [time_detected |-> td2, detections |-> dets2, ret |-> curr_detections]

\* The assignments of a call written to every object, as to attributes of the class.
StoreFieldsOnClass(self, r) ==
    [i \in Instances |-> r]

\* lines 77-78, 82, 87, 89: the call assigns to attributes of self, and
\* returns its list to the caller of that object.
StoreFields(self, r) ==
    [inst EXCEPT ![self] = r]

\* ------------------------------------------------------------ the observer

\* The labels some Detector watches.
Watchable == UNION LabelSets

\* A detection is candidate-present: its label is watched and its score is
\* strictly above the threshold.
CandidatePresent(result) ==
    result.label \in labels /\ result.score > score_th

LabelPresent(L, results) ==
    \E i \in 1..Len(results) : results[i].label = L /\ CandidatePresent(results[i])

AnyPresent(results) ==
    \E i \in 1..Len(results) : CandidatePresent(results[i])

\* The candidate-present detections of a frame, in the frame's order, each
\* reduced to its label and its bounding box.
RECURSIVE Expected(_)
Expected(results) ==
    IF results = <<>> THEN <<>>
    ELSE LET first == Head(results)
         IN  IF CandidatePresent(first)
             THEN <<[label |-> first.label, bbox |-> first.bbox]>> \o Expected(Tail(results))
             ELSE Expected(Tail(results))

\* The streak start is set, or is unset, as the program tests it (lines 64, 68, 84).
IsSet(td) == td > 0
IsUnset(td) == td < 0

HasLabel(list, L) ==
    \E i \in 1..Len(list) : list[i].label = L

\* The documented scenario: a filter watching cat with score threshold 0.5 and
\* sustain threshold 1.0 s; a cat of score 0.9 in box b1 at t = 0, 0.5 and 1.5,
\* then no cat detection at t = 2.0 and at t = 4.0.
ScenarioTimes == <<0, 1, 3, 4, 8>>

ScenarioConfig ==
    labels = {"cat"} /\ score_th = 5 /\ time_th = 2

ScenarioFrame(k, results) ==
    IF k <= 3
    THEN results = <<Cat>>
    ELSE \A i \in 1..Len(results) : results[i].label # "cat"

ScenarioStep(k, results, t) ==
    /\ ScenarioConfig
    /\ k \in 1..Len(ScenarioTimes)
    /\ t = ScenarioTimes[k]
    /\ ScenarioFrame(k, results)

\* What the observer records of a call on `results` at clock t that returned r.
Observe(results, t, r) ==
    /\ expected' = Expected(results)
    /\ td0' = time_detected
    /\ dets0' = detections
    /\ nonempty' = (results # <<>>)
    /\ who' = who
    /\ lastSeen' = IF LabelPresent(who, results) THEN t ELSE lastSeen
    /\ streakStart' =
            IF LabelPresent(who, results)
            THEN IF streakStart = NoTime THEN t ELSE streakStart
            ELSE IF lastSeen # NoTime /\ t - lastSeen >= absent_time_th
                 THEN NoTime
                 ELSE streakStart
    /\ runStart' =
            IF LabelPresent(who, results)
            THEN IF runStart = NoTime THEN t ELSE runStart
            ELSE NoTime
    /\ reported' =
            /\ LabelPresent(who, results)
            /\ \/ HasLabel(r, who)
               \/ runStart # NoTime /\ reported
    /\ lastPresentAt' = IF AnyPresent(results) THEN t ELSE lastPresentAt
    /\ lastPresentRet' = IF AnyPresent(results) THEN r ELSE lastPresentRet
    /\ LET gone == /\ ~AnyPresent(results)
                    /\ lastPresentRet # <<>>
                    /\ t - lastPresentAt >= absent_time_th
       IN  /\ afterReset' = (afterReset \/ gone)
           /\ newStreakAt' =
                IF gone THEN NoTime
                ELSE IF afterReset /\ newStreakAt = NoTime /\ AnyPresent(results) THEN t
                ELSE newStreakAt
    /\ seen' = IF AnyPresent(results) THEN TRUE
               ELSE IF detections # <<>> /\ detections' = <<>> THEN FALSE
               ELSE seen
    /\ lastNonEmptyRet' =
            IF r # <<>> THEN r
            ELSE IF /\ ~AnyPresent(results)
                    /\ IsSet(time_detected)
                    /\ t - time_detected >= absent_time_th
                 THEN <<>>
                 ELSE lastNonEmptyRet
    /\ LET follows == onScript /\ ScenarioStep(script + 1, results, t)
       IN  /\ onScript' = follows
           /\ script' = IF follows THEN script + 1 ELSE 0

\* ----------------------------------------------------------- specification

\* lines 35-47: Detector.__init__
Init ==
    /\ labels \in LabelSets
    /\ score_th \in ScoreThs
    /\ time_th \in TimeThs
    /\ time_detected = NoTime
    /\ detections = <<>>
    /\ curr_time = 0
    /\ ret = <<>>
    /\ calls = 0
    /\ expected = <<>>
    /\ td0 = NoTime
    /\ dets0 = <<>>
    /\ nonempty = FALSE
    /\ who = "cat"
    /\ streakStart = NoTime
    /\ lastSeen = NoTime
    /\ runStart = NoTime
    /\ reported = FALSE
    /\ lastPresentAt = NoTime
    /\ lastPresentRet = <<>>
    /\ afterReset = FALSE
    /\ newStreakAt = NoTime
    /\ seen = FALSE
    /\ lastNonEmptyRet = <<>>
    /\ onScript = TRUE
    /\ script = 0
    /\ inst = [i \in Instances |-> Fresh]
    /\ alone = [i \in Instances |-> Fresh]

\* lines 49-89: Detector.get_detections, on a frame and a clock reading that
\* is not before the previous one.
get_detections ==
    \E results \in Frames, t \in Times :
        /\ t >= curr_time
        /\ LET r == GetDetectionsResult(time_detected, detections, results, t)
           IN  /\ time_detected' = r.time_detected
               /\ detections' = r.detections
               /\ ret' = r.ret
               /\ Observe(results, t, r.ret)
        /\ curr_time' = t
        /\ calls' = 1
        /\ UNCHANGED <<labels, score_th, time_th, inst, alone>>

Next == get_detections

vars == <<prog, obs, inst, alone>>

Spec == Init /\ [][Next]_vars

\* lines 118, 127: get_detections called on one of two Detector objects, in
\* any order, each call reading a clock that is not before the previous one.
get_detections_of ==
    \E self \in Instances, results \in Frames, t \in Times :
        /\ t >= curr_time
        /\ inst' = StoreFields(self,
                GetDetectionsResult(inst[self].time_detected, inst[self].detections,
                                    results, t))
        /\ alone' = [alone EXCEPT ![self] =
                GetDetectionsResult(alone[self].time_detected, alone[self].detections,
                                    results, t)]
        /\ curr_time' = t
        /\ UNCHANGED <<labels, score_th, time_th, time_detected, detections, ret, calls, obs>>

NextTwo == get_detections_of

SpecTwo == Init /\ [][NextTwo]_vars

\* ------------------------------------------------------------------ claims

\* The latest call was made on a frame with a candidate-present detection.
Present == calls = 1 /\ expected # <<>>

\* The latest call was made on a frame without any.
Absent == calls = 1 /\ expected = <<>>

\* C1 (P1, no premature report): a call returns an entry for a watched label
\* only when that label's own presence streak (which an absence shorter than
\* the grace does not break) has lasted more than the sustain threshold.
P1_NoPrematureReport ==
    HasLabel(ret, who) =>
        streakStart # NoTime /\ curr_time - streakStart > time_th

\* C2 (P3, grace bridging): after a call that returned a non-empty verified
\* set, every call without a candidate-present detection made less than the
\* grace after the latest candidate-present frame returns that same set.
P3_GraceBridging ==
    (Absent /\ lastPresentRet # <<>> /\ curr_time - lastPresentAt < absent_time_th)
        => ret = lastPresentRet

P2_EventualReport ==
    (runStart # NoTime /\ curr_time - runStart > time_th) => reported

\* The entry the scenario expects: the cat in box b1, without its score.
CatEntry == [label |-> "cat", bbox |-> "b1"]

\* C5 (scenario 1): with the scenario's filter, the cat frames at t = 0 and
\* t = 0.5 return nothing, the first of them setting the streak start to 0,
\* and the cat frame at t = 1.5 returns exactly the cat entry.
Scenario1 ==
    onScript =>
        /\ script = 1 => (ret = <<>> /\ time_detected = 0)
        /\ script = 2 => ret = <<>>
        /\ script = 3 => ret = <<CatEntry>>

\* C6 (scenario 2): continuing scenario 1, the frame without a cat at t = 2.0
\* returns what the call at t = 1.5 returned, and the frame without a cat at
\* t = 4.0 returns nothing and leaves the cache empty and the streak start unset.
Scenario2 ==
    onScript =>
        /\ script = 4 => ret = lastPresentRet
        /\ script = 5 =>
                (ret = <<>> /\ detections = <<>> /\ IsUnset(time_detected))

\* C7 (P5, idempotent idle): a call that starts with the streak start unset
\* and the cache empty, on a frame without a candidate-present detection,
\* returns nothing and leaves the streak start unset and the cache empty.
P5_IdempotentIdle ==
    (Absent /\ IsUnset(td0) /\ dets0 = <<>>) =>
        /\ ret = <<>>
        /\ time_detected = td0
        /\ detections = <<>>

\* An idle call made after a verified detection and a full reset, on a frame
\* that carries detections, none of them candidate-present.
P5_Witness ==
    Absent /\ IsUnset(td0) /\ dets0 = <<>> /\ afterReset /\ nonempty

\* C8 (the sustain timer survives flicker): a call without a candidate-present
\* detection made less than the grace after the streak start leaves the streak
\* start as it was, and so does a call with a candidate-present detection made
\* while the streak start is recorded.
SustainTimerSurvivesFlicker ==
    /\ (Absent /\ td0 # NoTime /\ curr_time - td0 < absent_time_th)
            => time_detected = td0
    /\ (Present /\ td0 # NoTime) => time_detected = td0

\* Presence resumes after a flicker that fell within the grace of a verified
\* streak: the call reports at once, its elapsed time measured from the
\* original streak start.
FlickerWitness ==
    /\ Present /\ IsSet(td0) /\ dets0 # <<>> /\ ret # <<>>
    /\ runStart = curr_time
    /\ runStart > td0

\* C9 (non-candidates count as nothing): a call on a frame whose detections
\* are all non-candidates has the result, and leaves the fields, that a call
\* on the empty frame has from the same fields at the same clock; and so has
\* any further call from the state reached, at any clock.
NonCandidatesAsEmptyFrame ==
    /\ Absent =>
            [time_detected |-> time_detected, detections |-> detections, ret |-> ret]
                = GetDetectionsResult(td0, dets0, <<>>, curr_time)
    /\ \A results \in Frames, t \in Times :
            ~AnyPresent(results) =>
                GetDetectionsResult(time_detected, detections, results, t)
                    = GetDetectionsResult(time_detected, detections, <<>>, t)

\* A frame of non-candidates only, processed within the grace of a verified
\* streak: the cached set is returned, as for the empty frame.
NonCandidatesWitness ==
    Absent /\ nonempty /\ IsSet(td0) /\ ret # <<>>

FirstFrameReturnsNothing ==
    (Present /\ IsUnset(td0)) =>
        (ret = <<>> /\ time_detected = curr_time)

\* The first frame of a streak under a negative sustain threshold, which the
\* frame's age of zero exceeds; the streak follows a full reset.
FirstFrameWitness ==
    Present /\ IsUnset(td0) /\ time_th < 0 /\ afterReset

\* C12 (absence past the grace always resets): a call that starts with the
\* streak start set, on a frame without a candidate-present detection, made
\* the grace or more after the streak start, returns nothing and ends with
\* the streak start unset and the cache empty, also when the cache was empty.
AbsencePastGraceResets ==
    (Absent /\ IsSet(td0) /\ curr_time - td0 >= absent_time_th) =>
        /\ ret = <<>>
        /\ IsUnset(time_detected)
        /\ detections = <<>>

\* C14 (the cache is emptied by the absence timeout only): a call that starts
\* with a non-empty cache and ends with an empty one started with the streak
\* start set, had no candidate-present detection and was made the grace or
\* more after the streak start.
CacheEmptiedByTimeoutOnly ==
    (calls = 1 /\ dets0 # <<>> /\ detections = <<>>) =>
        /\ IsSet(td0)
        /\ expected = <<>>
        /\ curr_time - td0 >= absent_time_th

\* The absence timeout has emptied a cache that held the two entries of a frame.
CacheEmptiedWitness ==
    calls = 1 /\ Len(dets0) = 2 /\ detections = <<>> /\ ret = <<>>

\* C17 (a cache implies a streak): whenever the cache is not empty the streak
\* start is set.
CacheImpliesStreak ==
    detections # <<>> => IsSet(time_detected)

\* The cache is kept through a flicker: a call without a candidate-present
\* detection has returned it and left it in place.
CacheImpliesStreakWitness ==
    Absent /\ detections # <<>> /\ ret = detections

\* C18 (the grace is anchored at the streak start): a call without a
\* candidate-present detection returns something only when it is made less
\* than the grace after the streak start and the cache held a verified list;
\* so with a sustain threshold of the grace or more no such call returns
\* anything.
GraceAnchoredAtStreakStart ==
    /\ (Absent /\ ret # <<>>) =>
            /\ IsSet(td0)
            /\ curr_time - td0 < absent_time_th
            /\ dets0 # <<>>
            /\ ret = dets0
    /\ (Absent /\ time_th >= absent_time_th) => ret = <<>>

\* Under a sustain threshold of the grace, a verified streak meets a frame
\* without a candidate: the cache is dropped, not replayed.
GraceAnchoredWitness ==
    Absent /\ time_th >= absent_time_th /\ dets0 # <<>> /\ ret = <<>>

\* C19 (a streak start of exactly 0.0): the first candidate-present frame of a
\* streak processed at clock 0 leaves the streak start at 0, and every call
\* that starts with the streak start at 0 returns nothing and leaves the
\* streak start and the cache as they were, whatever its frame.
ZeroStreakStartIsStuck ==
    /\ (Present /\ IsUnset(td0) /\ curr_time = 0) => time_detected = 0
    /\ (calls = 1 /\ td0 = 0) =>
            /\ ret = <<>>
            /\ time_detected = 0
            /\ detections = dets0
            /\ detections = <<>>

\* A streak started at clock 0 meets a candidate-present frame older than the
\* sustain threshold, and one without a candidate past the grace.
ZeroStreakStartWitness ==
    /\ calls = 1 /\ td0 = 0 /\ expected = <<>>
    /\ curr_time >= absent_time_th
    /\ lastPresentAt > time_th /\ lastPresentAt > 0

\* C13 (unset means nothing seen): between calls, the streak start is unset
\* exactly when no candidate-present detection has been processed since the
\* filter was built or since a call last emptied the cache.
UnsetIffNothingSeen ==
    IsUnset(time_detected) <=> ~seen

\* A filter that has verified a detection and been cleared, and has seen no
\* candidate since.
NothingSeenWitness ==
    calls = 1 /\ ~seen /\ afterReset /\ nonempty

\* C15 (the cache is the latest non-empty return): after every call the cache
\* is the latest non-empty list returned since the filter was built or since
\* the last absence timeout, and is empty when there is none.
CacheIsLatestNonEmptyReturn ==
    detections = lastNonEmptyRet

\* A call has replaced a non-empty cache by the different list it returned.
CacheReplacedWitness ==
    calls = 1 /\ dets0 # <<>> /\ detections # <<>> /\ detections # dets0

=============================================================================
